---- MODULE Spec2Model ----
(***************************************************************************)
(* MappedMemoryBuffer (smmap/buf.py): a byte buffer reading a resource     *)
(* through the sliding window of a memory cursor.  The buffer's methods    *)
(* are translated from buf.py; the cursor (mman.MemoryCursor) is modelled  *)
(* by its contract.                                                        *)
(***************************************************************************)
EXTENDS Integers, Sequences, FiniteSets, TLC

\* ---------------------------------------------------------------- bounds
FileSize == 3        \* N: number of bytes of the mapped resource
WindowSize == 2      \* W: largest window the cursor grants
MaxLead == 1         \* how far before the requested offset a window may begin
MaxPast == 1         \* read indices range over 0 .. FileSize + MaxPast
MaxReloc == 3        \* the per-call relocation counter saturates here
MaxInt == 2147483647 \* sys.maxint, the default size

None == "None"
Cursors == {"c1", "c2"}
Accessors == {"a1", "a2"}

Min(x, y) == IF x <= y THEN x ELSE y
Max(x, y) == IF x >= y THEN x ELSE y

\* The resource's known content: byte p has value 100 + p.
Resource == [p \in 0..(FileSize - 1) |-> 100 + p]

\* ------------------------------------------------- cursor (contract only)
Released == [valid |-> FALSE, b |-> 0, e |-> 0]

Window(b, e) == [valid |-> TRUE, b |-> b, e |-> e]

\* relocate(offset, length, flags): the windows the cursor may grant.  A
\* granted window contains offset, lies inside the resource and is at most
\* WindowSize long; it may begin before offset and may end before
\* offset + length.  When the resource ends before offset no window is
\* held afterwards.
Grants(offset) ==
    IF offset >= FileSize \/ offset < 0
    THEN {Released}
    ELSE {Window(b, e) : b \in Max(0, offset - MaxLead)..offset,
                         e \in (offset + 1)..FileSize} \cap
         {w \in [valid : {TRUE}, b : 0..FileSize, e : 0..FileSize] :
              w.e - w.b <= WindowSize}

is_valid(w) == w.valid

ofs_begin(w) == w.b

ofs_end(w) == w.e

includes_ofs(w, ofs) == w.valid /\ w.b <= ofs /\ ofs < w.e

\* bytes(): exactly the resource bytes of the current window
buffer(w) == [k \in 1..(w.e - w.b) |-> Resource[w.b + k - 1]]

\* ------------------------------------------------------ Python sequences
\* s[k] for a Python index k (negative indices count from the end)
PyIndexOk(s, k) == -Len(s) <= k /\ k < Len(s)

PyIndex(s, k) == IF k >= 0 THEN s[k + 1] ELSE s[Len(s) + k + 1]

PyNorm(s, k) == IF k < 0 THEN Max(0, Len(s) + k) ELSE Min(k, Len(s))

\* s[lo:hi]
PySlice(s, lo, hi) == SubSeq(s, PyNorm(s, lo) + 1, PyNorm(s, hi))

\* ------------------------------------------------------------------ state
VARIABLES
    sync,     \* TRUE: the callers let one accessor at a time use the buffer
    assoc,    \* assoc[k]: cursor k is associated with the resource
    cur,      \* cur[k]: the window of cursor k
    inst,     \* "absent" | "alive" | "failed" (constructor raised)
    _c,       \* the buffer's stored cursor, or None
    life,     \* the last lifecycle call (constructor, begin_access, ...)
    pc,       \* pc[a]: position of accessor a inside its read
    loc       \* loc[a]: the locals of accessor a's read, and its outcome

vars == <<sync, assoc, cur, inst, _c, life, pc, loc>>

NoLife == [op |-> "none", arg |-> None, ofs |-> 0, size |-> 0, flags |-> 0,
           ret |-> "None", nreloc |-> 0, req |-> <<>>, o1 |-> -1,
           held |-> FALSE, prev |-> None]

\* i, j, c, b, l, ofs, md: the locals of __getitem__ / __getslice__;
\* ret, val: how the call ended; w0: the window when the call began;
\* nreloc, req: the relocation requests the call issued (count, last one);
\* chk: c.is_valid() was called and answered true.
IdleLoc == [op |-> "none", i |-> 0, j |-> 0, c |-> None, b |-> 0, l |-> 0,
            ofs |-> 0, md |-> <<>>, ret |-> "None", val |-> <<>>,
            w0 |-> Released, nreloc |-> 0, req |-> <<>>, chk |-> FALSE]

Indices == 0..(FileSize + MaxPast)

Offsets == 0..FileSize

\* the (size, flags) arguments tried: the defaults, and a region of one byte
\* mapped with a flag set
SizeFlags == {<<MaxInt, 0>>, <<1, 1>>}

\* cursor c1 is associated with the resource, cursor c2 with none
OneAssociated == [k \in Cursors |-> k = "c1"]

AllIdle == \A a \in Accessors : pc[a] = "idle"

Init ==
    /\ sync = TRUE
    /\ assoc = OneAssociated
    /\ cur = [k \in Cursors |-> Released]
    /\ inst = "absent"
    /\ _c = None
    /\ life = NoLife
    /\ pc = [a \in Accessors |-> "idle"]
    /\ loc = [a \in Accessors |-> IdleLoc]

InitConc ==
    /\ sync = FALSE
    /\ assoc = OneAssociated
    /\ cur = [k \in Cursors |-> Released]
    /\ inst = "absent"
    /\ _c = None
    /\ life = NoLife
    /\ pc = [a \in Accessors |-> "idle"]
    /\ loc = [a \in Accessors |-> IdleLoc]

\* --------------------------------------------------------------- lifecycle
\* `if cursor:` - a cursor object is true, None is false
Truthy(cursor) == cursor # None

\* use_region(offset, size, flags) as the request the cursor receives
Request(k, offset, size, flags) ==
    [c |-> k, ofs |-> offset, size |-> size, flags |-> flags]

\* unuse_region(): the cursor relinquishes its window and stays associated
unuse_region(w) == Released

Count(n) == Min(n + 1, MaxReloc)

\* held (of a release): the cursor held a window when the release began.
\* o1: the offset of the successful bind that the releases just before this
\* call ended (-1: this call does not follow such a release, or it binds
\* another cursor than the released one).
\* prev (of a bind): the cursor of that released bind, None without one.
BoundAt(lf) ==
    IF lf.op \in {"__init__", "begin_access"} /\ lf.ret = "True" THEN lf.ofs
    ELSE IF lf.op = "end_access" THEN lf.o1
    ELSE -1

\* begin_access without the `is_associated()` test
begin_access_NoAssocCheck(op, cursor, offset, size, flags) ==
    LET c == IF Truthy(cursor) THEN cursor ELSE _c
        call == [op |-> op, arg |-> cursor, ofs |-> offset, size |-> size,
                 flags |-> flags, ret |-> "False", nreloc |-> 0, req |-> <<>>,
                 o1 |-> IF life.op = "end_access"
                             /\ (~Truthy(cursor) \/ cursor = life.arg)
                        THEN life.o1 ELSE -1,
                 held |-> FALSE,
                 prev |-> IF life.op = "end_access" /\ life.o1 >= 0
                          THEN life.arg ELSE None]
    IN  /\ _c' = c
        /\ IF c # None
           THEN \E w \in Grants(offset) :
                  /\ cur' = [cur EXCEPT ![c] = w]
                  /\ life' = [call EXCEPT
                                !.ret = IF is_valid(w) THEN "True" ELSE "False",
                                !.nreloc = 1,
                                !.req = <<Request(c, offset, size, flags)>>]
           ELSE /\ cur' = cur
                /\ life' = call

\* begin_access(cursor, offset, size, flags), called as `op`
begin_access(op, cursor, offset, size, flags) ==
    LET c == IF Truthy(cursor) THEN cursor ELSE _c
        call == [op |-> op, arg |-> cursor, ofs |-> offset, size |-> size,
                 flags |-> flags, ret |-> "False", nreloc |-> 0, req |-> <<>>,
                 o1 |-> IF life.op = "end_access"
                             /\ (~Truthy(cursor) \/ cursor = life.arg)
                        THEN life.o1 ELSE -1,
                 held |-> FALSE,
                 prev |-> IF life.op = "end_access" /\ life.o1 >= 0
                          THEN life.arg ELSE None]
    IN  /\ _c' = c
        /\ IF c # None /\ assoc[c]
           THEN \E w \in Grants(offset) :
                  /\ cur' = [cur EXCEPT ![c] = w]
                  /\ life' = [call EXCEPT
                                !.ret = IF is_valid(w) THEN "True" ELSE "False",
                                !.nreloc = 1,
                                !.req = <<Request(c, offset, size, flags)>>]
           ELSE /\ cur' = cur
                /\ life' = call

\* end_access without the `is not None` guard
end_access_NoGuard(op) ==
    /\ cur' = IF _c # None THEN [cur EXCEPT ![_c] = unuse_region(cur[_c])]
              ELSE cur
    /\ life' = [NoLife EXCEPT !.op = op, !.arg = _c, !.o1 = BoundAt(life),
                               !.held = _c # None /\ is_valid(cur[_c]),
                               !.ret = IF _c = None THEN "AttributeError"
                                       ELSE "None"]

\* end_access that leaves the cursor's window in use
end_access_NoRelease(op) ==
    /\ cur' = cur
    /\ life' = [NoLife EXCEPT !.op = op, !.arg = _c, !.o1 = BoundAt(life),
                               !.held = _c # None /\ is_valid(cur[_c])]

\* end_access(), called as `op`
end_access(op) ==
    /\ cur' = IF _c # None THEN [cur EXCEPT ![_c] = unuse_region(cur[_c])]
              ELSE cur
    /\ life' = [NoLife EXCEPT !.op = op, !.arg = _c, !.o1 = BoundAt(life),
                               !.held = _c # None /\ is_valid(cur[_c])]

\* Construct that does not raise when begin_access answers False
Construct_NoRaise(cursor, offset, size, flags) ==
    /\ inst = "absent"
    /\ AllIdle
    /\ IF Truthy(cursor)
       THEN /\ begin_access("__init__", cursor, offset, size, flags)
            /\ inst' = "alive"
       ELSE /\ _c' = cursor
            /\ cur' = cur
            /\ life' = [NoLife EXCEPT !.op = "__init__"]
            /\ inst' = "alive"
    /\ UNCHANGED <<sync, assoc, pc, loc>>

\* MappedMemoryBuffer(cursor, offset, size, flags)
Construct(cursor, offset, size, flags) ==
    /\ inst = "absent"
    /\ AllIdle
    /\ IF Truthy(cursor)
       THEN /\ begin_access("__init__", cursor, offset, size, flags)
            /\ inst' = IF life'.ret = "True" THEN "alive" ELSE "failed"
       ELSE /\ _c' = cursor
            /\ cur' = cur
            /\ life' = [NoLife EXCEPT !.op = "__init__"]
            /\ inst' = "alive"
    /\ UNCHANGED <<sync, assoc, pc, loc>>

BeginAccess(cursor, offset, size, flags) ==
    /\ inst = "alive"
    /\ AllIdle
    /\ begin_access("begin_access", cursor, offset, size, flags)
    /\ UNCHANGED <<sync, assoc, inst, pc, loc>>

\* EndAccess forgetting the stored cursor
EndAccess_DropCursor ==
    /\ inst = "alive"
    /\ AllIdle
    /\ end_access("end_access")
    /\ _c' = None
    /\ UNCHANGED <<sync, assoc, inst, pc, loc>>

EndAccess ==
    /\ inst = "alive"
    /\ AllIdle
    /\ end_access("end_access")
    /\ UNCHANGED <<sync, assoc, inst, _c, pc, loc>>

\* Destroy without the call of end_access
Destroy_NoRelease ==
    /\ inst \in {"alive", "failed"}
    /\ AllIdle
    /\ life' = [NoLife EXCEPT !.op = "__del__", !.arg = _c,
                               !.held = _c # None /\ is_valid(cur[_c])]
    /\ inst' = "absent"
    /\ _c' = None
    /\ UNCHANGED <<sync, assoc, cur, pc, loc>>

\* __del__: the instance goes away, also after a constructor that raised
Destroy ==
    /\ inst \in {"alive", "failed"}
    /\ AllIdle
    /\ end_access("__del__")
    /\ inst' = "absent"
    /\ _c' = None
    /\ UNCHANGED <<sync, assoc, pc, loc>>

\* ------------------------------------------------------------------- reads
\* Once a read begins, the last lifecycle call is remembered by what it
\* bound only: its kind, cursor, offset and result.
Forget(lf) ==
    [NoLife EXCEPT !.op = lf.op, !.arg = lf.arg, !.ofs = lf.ofs,
                   !.ret = lf.ret, !.o1 = lf.o1]

MayStart(a) ==
    /\ inst = "alive"
    /\ pc[a] = "idle"
    /\ sync => AllIdle

Fail(a, exc) ==
    /\ pc' = [pc EXCEPT ![a] = "failed"]
    /\ loc' = [loc EXCEPT ![a].ret = exc]

\* c.use_region(offset, size) issued by accessor a's read
use_region(a, offset, size, next) ==
    LET c == loc[a].c
    IN  \E w \in Grants(offset) :
          /\ cur' = [cur EXCEPT ![c] = w]
          /\ loc' = [loc EXCEPT ![a].nreloc = Count(@),
                                ![a].req = <<Request(c, offset, size, 0)>>]
          /\ pc' = [pc EXCEPT ![a] = next]

\* AssertValid with the assertion left out
AssertValid_NoAssert(a, next) ==
    LET c == loc[a].c
    IN  /\ IF c = None THEN Fail(a, "AttributeError")
           ELSE /\ pc' = [pc EXCEPT ![a] = next]
                /\ loc' = loc
        /\ UNCHANGED <<sync, assoc, cur, inst, _c, life>>

\* `c = self._c; assert c.is_valid()`
AssertValid(a, next) ==
    LET c == loc[a].c
    IN  /\ IF c = None THEN Fail(a, "AttributeError")
           ELSE IF ~is_valid(cur[c]) THEN Fail(a, "AssertionError")
           ELSE /\ pc' = [pc EXCEPT ![a] = next]
                /\ loc' = [loc EXCEPT ![a].chk = TRUE]
        /\ UNCHANGED <<sync, assoc, cur, inst, _c, life>>

\* buf[i]: entry of __getitem__, `c = self._c`
GetItem(a, i) ==
    /\ MayStart(a)
    /\ pc' = [pc EXCEPT ![a] = "gi_valid"]
    /\ loc' = [loc EXCEPT ![a] =
                 [IdleLoc EXCEPT !.op = "getitem", !.i = i, !.c = _c,
                      !.w0 = IF _c = None THEN Released ELSE cur[_c]]]
    /\ life' = Forget(life)
    /\ UNCHANGED <<sync, assoc, cur, inst, _c>>

GiValid(a) ==
    /\ pc[a] = "gi_valid"
    /\ AssertValid(a, "gi_incl")

\* GiIncl without the coverage test: the window is read as it is
GiIncl_NoCheck(a) ==
    /\ pc[a] = "gi_incl"
    /\ pc' = [pc EXCEPT ![a] = "gi_read"]
    /\ UNCHANGED <<sync, assoc, cur, inst, _c, life, loc>>

\* `if not c.includes_ofs(i):`
GiIncl(a) ==
    /\ pc[a] = "gi_incl"
    /\ pc' = [pc EXCEPT ![a] =
                IF ~includes_ofs(cur[loc[a].c], loc[a].i) THEN "gi_use"
                ELSE "gi_read"]
    /\ UNCHANGED <<sync, assoc, cur, inst, _c, life, loc>>

\* `c.use_region(i, 1)`
GiUse(a) ==
    /\ pc[a] = "gi_use"
    /\ use_region(a, loc[a].i, 1, "gi_read")
    /\ UNCHANGED <<sync, assoc, inst, _c, life>>

\* GiRead answering a zero byte where the window has no byte at the index
GiRead_ZeroFill(a) ==
    LET w == cur[loc[a].c]
        k == loc[a].i - ofs_begin(w)
    IN  /\ pc[a] = "gi_read"
        /\ pc' = [pc EXCEPT ![a] = "done"]
        /\ loc' = [loc EXCEPT ![a].val =
                     IF PyIndexOk(buffer(w), k) THEN <<PyIndex(buffer(w), k)>>
                     ELSE <<0>>]
        /\ UNCHANGED <<sync, assoc, cur, inst, _c, life>>

\* GiRead indexing the window with i itself: `c.buffer()[i]`
GiRead_NoRebase(a) ==
    LET w == cur[loc[a].c]
        k == loc[a].i
    IN  /\ pc[a] = "gi_read"
        /\ IF PyIndexOk(buffer(w), k)
           THEN /\ pc' = [pc EXCEPT ![a] = "done"]
                /\ loc' = [loc EXCEPT ![a].val = <<PyIndex(buffer(w), k)>>]
           ELSE Fail(a, "IndexError")
        /\ UNCHANGED <<sync, assoc, cur, inst, _c, life>>

\* `return c.buffer()[i-c.ofs_begin()]`
GiRead(a) ==
    LET w == cur[loc[a].c]
        k == loc[a].i - ofs_begin(w)
    IN  /\ pc[a] = "gi_read"
        /\ IF PyIndexOk(buffer(w), k)
           THEN /\ pc' = [pc EXCEPT ![a] = "done"]
                /\ loc' = [loc EXCEPT ![a].val = <<PyIndex(buffer(w), k)>>]
           ELSE Fail(a, "IndexError")
        /\ UNCHANGED <<sync, assoc, cur, inst, _c, life>>

\* buf[i:j]: entry of __getslice__, `c = self._c`
GetSlice(a, i, j) ==
    /\ MayStart(a)
    /\ i <= j
    /\ pc' = [pc EXCEPT ![a] = "gs_valid"]
    /\ loc' = [loc EXCEPT ![a] =
                 [IdleLoc EXCEPT !.op = "getslice", !.i = i, !.j = j, !.c = _c,
                      !.w0 = IF _c = None THEN Released ELSE cur[_c]]]
    /\ life' = Forget(life)
    /\ UNCHANGED <<sync, assoc, cur, inst, _c>>

GsValid(a) ==
    /\ pc[a] = "gs_valid"
    /\ AssertValid(a, "gs_test")

\* `(c.ofs_begin() <= i) and (j < c.ofs_end())`
FastPath(w, i, j) == ofs_begin(w) <= i /\ j < ofs_end(w)

\* the test of the fast path; the slow path starts with
\* `l = j-i; ofs = i; md = str()`
GsTest(a) ==
    /\ pc[a] = "gs_test"
    /\ IF FastPath(cur[loc[a].c], loc[a].i, loc[a].j)
       THEN /\ pc' = [pc EXCEPT ![a] = "gs_b"]
            /\ loc' = loc
       ELSE /\ pc' = [pc EXCEPT ![a] = "gs_loop"]
            /\ loc' = [loc EXCEPT ![a].l = loc[a].j - loc[a].i,
                                  ![a].ofs = loc[a].i,
                                  ![a].md = <<>>]
    /\ UNCHANGED <<sync, assoc, cur, inst, _c, life>>

\* `b = c.ofs_begin()`
GsB(a) ==
    /\ pc[a] = "gs_b"
    /\ pc' = [pc EXCEPT ![a] = "gs_fast"]
    /\ loc' = [loc EXCEPT ![a].b = ofs_begin(cur[loc[a].c])]
    /\ UNCHANGED <<sync, assoc, cur, inst, _c, life>>

\* `return c.buffer()[i-b:j-b]`
GsFast(a) ==
    /\ pc[a] = "gs_fast"
    /\ pc' = [pc EXCEPT ![a] = "done"]
    /\ loc' = [loc EXCEPT ![a].val =
                 PySlice(buffer(cur[loc[a].c]), loc[a].i - loc[a].b,
                         loc[a].j - loc[a].b)]
    /\ UNCHANGED <<sync, assoc, cur, inst, _c, life>>

\* `while l:` ... `return md`
GsLoop(a) ==
    /\ pc[a] = "gs_loop"
    /\ IF loc[a].l # 0
       THEN /\ pc' = [pc EXCEPT ![a] = "gs_use"]
            /\ loc' = loc
       ELSE /\ pc' = [pc EXCEPT ![a] = "done"]
            /\ loc' = [loc EXCEPT ![a].val = loc[a].md]
    /\ UNCHANGED <<sync, assoc, cur, inst, _c, life>>

\* `c.use_region(ofs, l)`
GsUse(a) ==
    /\ pc[a] = "gs_use"
    /\ use_region(a, loc[a].ofs, loc[a].l, "gs_read")
    /\ UNCHANGED <<sync, assoc, inst, _c, life>>

\* SlowRead taking the whole window: `d = c.buffer()`
SlowRead_Whole(w, l) == buffer(w)

\* `d = c.buffer()[:l]`
SlowRead(w, l) == PySlice(buffer(w), 0, l)

\* `d = c.buffer()[:l]; ofs += len(d); l -= len(d); md += d`
GsRead(a) ==
    LET d == SlowRead(cur[loc[a].c], loc[a].l)
    IN  /\ pc[a] = "gs_read"
        /\ pc' = [pc EXCEPT ![a] = "gs_loop"]
        /\ loc' = [loc EXCEPT ![a].ofs = @ + Len(d),
                              ![a].l = @ - Len(d),
                              ![a].md = @ \o d]
        /\ UNCHANGED <<sync, assoc, cur, inst, _c, life>>

\* the caller takes the outcome of the read
Return(a) ==
    /\ pc[a] \in {"done", "failed"}
    /\ pc' = [pc EXCEPT ![a] = "idle"]
    /\ loc' = [loc EXCEPT ![a] = IdleLoc]
    /\ UNCHANGED <<sync, assoc, cur, inst, _c, life>>

ItemRead(a) ==
    \/ \E i \in Indices : GetItem(a, i)
    \/ GiValid(a)
    \/ GiIncl(a)
    \/ GiUse(a)
    \/ GiRead(a)
    \/ Return(a)

SliceRead(a) ==
    \/ \E i, j \in Indices : GetSlice(a, i, j)
    \/ GsValid(a)
    \/ GsTest(a)
    \/ GsB(a)
    \/ GsFast(a)
    \/ GsLoop(a)
    \/ GsUse(a)
    \/ GsRead(a)

Read(a) == ItemRead(a) \/ SliceRead(a)

Lifecycle ==
    \/ \E cursor \in Cursors, offset \in Offsets, sf \in SizeFlags :
          Construct(cursor, offset, sf[1], sf[2])
    \/ Construct(None, 0, MaxInt, 0)
    \/ \E cursor \in Cursors \cup {None}, offset \in Offsets,
          sf \in SizeFlags : BeginAccess(cursor, offset, sf[1], sf[2])
    \/ EndAccess
    \/ Destroy

Next == Lifecycle \/ \E a \in Accessors : Read(a)

Spec == Init /\ [][Next]_vars

\* Both cursors are associated with the resource, and the caller releases
\* the buffer before each rebind: begin_access is called on a buffer that
\* was just released or was constructed without a cursor.
BothAssociated == [k \in Cursors |-> TRUE]

InitOwner ==
    /\ sync = TRUE
    /\ assoc = BothAssociated
    /\ cur = [k \in Cursors |-> Released]
    /\ inst = "absent"
    /\ _c = None
    /\ life = NoLife
    /\ pc = [a \in Accessors |-> "idle"]
    /\ loc = [a \in Accessors |-> IdleLoc]

ReleasedFirst ==
    \/ life.op = "end_access"
    \/ life.op = "__init__" /\ life.arg = None

Rebind(cursor, offset, size, flags) ==
    /\ ReleasedFirst
    /\ BeginAccess(cursor, offset, size, flags)

NextOwner ==
    \/ \E cursor \in Cursors, offset \in Offsets, sf \in SizeFlags :
          Construct(cursor, offset, sf[1], sf[2])
    \/ Construct(None, 0, MaxInt, 0)
    \/ \E cursor \in Cursors \cup {None}, offset \in Offsets,
          sf \in SizeFlags : Rebind(cursor, offset, sf[1], sf[2])
    \/ EndAccess
    \/ Destroy
    \/ \E a \in Accessors : ItemRead(a)

SpecOwner == InitOwner /\ [][NextOwner]_vars

\* One buffer on cursor c1 shared by the accessors, which the callers
\* either serialise (sync) or not; the accessors read single bytes.
InitShared == Init \/ InitConc

NextShared ==
    \/ Construct("c1", 0, MaxInt, 0)
    \/ \E a \in Accessors : ItemRead(a)

SpecShared == InitShared /\ [][NextShared]_vars

\* ------------------------------------------------------------------ claims
\* the resource bytes of the absolute range [i, j), as one contiguous read
Contiguous(i, j) == [k \in 1..(j - i) |-> Resource[i + k - 1]]

Slices(a) == loc[a].op = "getslice"

Items(a) == loc[a].op = "getitem"

\* the last lifecycle call bound the buffer successfully
Bound == life.op \in {"__init__", "begin_access"} /\ life.ret = "True"

\* C1: every slice(i, j) with i <= j inside the resource that returns,
\* returns exactly the resource bytes of [i, j), whatever windows the cursor
\* granted on the way.
C1_SliceIsContiguousRead ==
    \A a \in Accessors :
        (Slices(a) /\ pc[a] = "done" /\ loc[a].j <= FileSize)
            => loc[a].val = Contiguous(loc[a].i, loc[a].j)

\* C2: the buffer is relative to the offset of its bind: after a successful
\* bind at offset, at(k) returns the resource byte at offset + k.
C2_IndexRelativeToBindOffset ==
    \A a \in Accessors :
        (Items(a) /\ pc[a] = "done" /\ Bound
            /\ life.ofs + loc[a].i < FileSize)
            => loc[a].val = <<Resource[life.ofs + loc[a].i]>>

\* C3: a slice whose range extends past the end of the resource never
\* returns a result, and once the resource is exhausted (a relocation past
\* its end left no window) the call has failed instead of going on.
C3_SlicePastEndFails ==
    \A a \in Accessors :
        (Slices(a) /\ loc[a].i < loc[a].j /\ loc[a].j > FileSize)
            => /\ pc[a] # "done"
               /\ ~(pc[a] = "gs_loop" /\ loc[a].nreloc > 0
                      /\ ~is_valid(cur[loc[a].c]))

\* C4: a relocation step of the slow path that yields zero new bytes while
\* the remaining length is positive makes the call fail; the relocation is
\* not repeated.
C4_ZeroProgressFails ==
    [][\A a \in Accessors :
         (pc[a] = "gs_read" /\ loc[a].l > 0
             /\ Len(SlowRead(cur[loc[a].c], loc[a].l)) = 0)
             => pc'[a] = "failed"]_vars

\* the exceptions of a read on a buffer that is not bound
NotBound == {"AttributeError", "AssertionError"}

\* the exception of a read past the data the resource has
OutOfRange == {"IndexError"}

\* the read of accessor a began while the buffer had no valid cursor
BeganUnbound(a) ==
    loc[a].op # "none" /\ (loc[a].c = None \/ ~is_valid(loc[a].w0))

\* C5: a read (at or slice) on a buffer that is unbound, released or whose
\* cursor reports invalid fails: it returns no data, issues no relocation
\* request and leaves the cursors as they were.
C5_UnboundReadFails ==
    \A a \in Accessors :
        BeganUnbound(a)
            => /\ pc[a] \in {"gi_valid", "gs_valid", "failed"}
               /\ pc[a] = "failed" => loc[a].ret \in NotBound
               /\ loc[a].val = <<>>
               /\ loc[a].nreloc = 0
               /\ loc[a].c # None => cur[loc[a].c] = loc[a].w0

\* a read after release was refused
C5_Witness ==
    \E a \in Accessors :
        /\ life.op = "end_access"
        /\ Slices(a)
        /\ pc[a] = "failed"
        /\ loc[a].ret = "AssertionError"

\* C6: at(i) whose relocation left a window that does not cover i fails
\* with OutOfRange; a byte that at(i) returns is the byte at i of a window
\* containing i.
C6_UncoveredItemFails ==
    \A a \in Accessors :
        Items(a) =>
            /\ (pc[a] \in {"done", "failed"} /\ loc[a].ret \notin NotBound
                  /\ ~includes_ofs(cur[loc[a].c], loc[a].i))
                 => (pc[a] = "failed" /\ loc[a].ret \in OutOfRange)
            /\ pc[a] = "done"
                 => /\ includes_ofs(cur[loc[a].c], loc[a].i)
                    /\ loc[a].val = <<Resource[loc[a].i]>>

\* at(i) past the end of the resource relocated once and failed
C6_Witness ==
    \E a \in Accessors :
        /\ Items(a)
        /\ loc[a].i >= FileSize
        /\ loc[a].nreloc = 1
        /\ ~is_valid(cur[loc[a].c])
        /\ pc[a] = "failed"
        /\ loc[a].ret = "IndexError"

\* the window at the beginning of accessor a's slice fully contains [i, j)
Contained(a) ==
    /\ is_valid(loc[a].w0)
    /\ ofs_begin(loc[a].w0) <= loc[a].i
    /\ loc[a].j <= ofs_end(loc[a].w0)

\* C7: a slice whose range the current window fully contains (j = window
\* end included) issues no relocation request, leaves the window unchanged
\* and returns the sub-range of the window.
C7_FastPathNoRelocation ==
    \A a \in Accessors :
        (Slices(a) /\ Contained(a))
            => /\ loc[a].nreloc = 0
               /\ cur[loc[a].c] = loc[a].w0
               /\ pc[a] = "done"
                    => loc[a].val =
                         SubSeq(buffer(loc[a].w0),
                                loc[a].i - ofs_begin(loc[a].w0) + 1,
                                loc[a].j - ofs_begin(loc[a].w0))

\* what at(p) returns for each p of [i, j) read from window w
ByteByByte(w, i, j) ==
    [k \in 1..(j - i) |-> PyIndex(buffer(w), i + k - 1 - ofs_begin(w))]

\* C8: slice(i, j) with [i, j) fully inside the current window returns the
\* bytes that at(i), ..., at(j-1) return one at a time.
C8_SliceEqualsByteByByte ==
    \A a \in Accessors :
        (Slices(a) /\ Contained(a) /\ pc[a] = "done")
            => loc[a].val = ByteByByte(loc[a].w0, loc[a].i, loc[a].j)

\* a step that is a release: end_access, called directly or by __del__
ReleaseStep ==
    /\ AllIdle
    /\ pc' = pc
    /\ life'.op \in {"end_access", "__del__"}
    /\ inst \in {"alive", "failed"}
    /\ life'.op = "end_access" => inst' = inst

\* C9: release never fails and keeps the stored cursor; on a buffer that is
\* unbound or already released it changes no cursor (the window is
\* relinquished once), so a second release leaves the state of the first.
C9_ReleaseIdempotent ==
    [][ReleaseStep
         => /\ life'.ret = "None"
            /\ life'.op = "end_access" => _c' = _c
            /\ (_c = None \/ ~is_valid(cur[_c])) => cur' = cur
            /\ _c # None => ~is_valid(cur'[_c])
            /\ life.op = "end_access"
                 => (cur' = cur /\ life'.arg = life.arg
                       /\ life'.o1 = life.o1)]_vars

\* a release that found the window already released by the release before
C9_Witness ==
    /\ life.op \in {"end_access", "__del__"}
    /\ life.arg # None
    /\ life.o1 >= 0
    /\ ~life.held
    /\ life.ret = "None"

\* the last lifecycle call is a bind that follows the release of a
\* successful bind at another offset, binds the released cursor again (passed
\* or reused) and asks for an offset inside the resource
Rebound ==
    /\ life.op = "begin_access"
    /\ life.o1 >= 0
    /\ life.o1 # life.ofs
    /\ life.ofs < FileSize

BindStep ==
    /\ AllIdle
    /\ pc' = pc
    /\ inst \in {"absent", "alive"}
    /\ \/ life'.op = "begin_access" /\ inst = "alive"
       \/ life'.op = "__init__" /\ life'.arg # None /\ inst = "absent"

\* the cursor in effect of the bind that a BindStep performs
InEffect == IF life'.arg # None THEN life'.arg ELSE _c

\* C11: bind with an absent or unassociated cursor in effect answers False
\* without raising and issues no relocation request; otherwise it issues
\* exactly one relocation request, for (offset, size, flags), and answers
\* True exactly when the cursor is valid after it.
C11_BindOutcome ==
    [][BindStep
         => /\ _c' = InEffect
            /\ life'.ret \in {"True", "False"}
            /\ IF InEffect = None \/ ~assoc[InEffect]
               THEN /\ life'.ret = "False"
                    /\ life'.nreloc = 0
                    /\ life'.req = <<>>
                    /\ cur' = cur
               ELSE /\ life'.nreloc = 1
                    /\ life'.req = <<Request(InEffect, life'.ofs, life'.size,
                                             life'.flags)>>
                    /\ (life'.ret = "True") <=> is_valid(cur'[InEffect])
                    /\ \A k \in Cursors \ {InEffect} : cur'[k] = cur[k]]_vars

\* a bind that passed an unassociated cursor answered False, no relocation
C11_Witness ==
    /\ life.op = "begin_access"
    /\ life.arg # None
    /\ ~assoc[life.arg]
    /\ life.size = 1
    /\ life.flags = 1
    /\ life.ret = "False"
    /\ life.nreloc = 0

\* C12: construction with a cursor binds at once (one relocation request
\* when the cursor is associated); it raises exactly when that bind answers
\* False, and then the cursor of the instance holds no window.
C12_FailedConstruction ==
    /\ inst = "failed"
         => /\ life.op = "__init__"
            /\ life.arg # None
            /\ life.ret = "False"
            /\ _c = life.arg
            /\ ~is_valid(cur[_c])
    /\ (life.op = "__init__" /\ life.arg # None /\ life.ret = "False")
         => inst = "failed"
    /\ (life.op = "__init__" /\ life.arg # None /\ life.size # 0)
         => life.nreloc = (IF assoc[life.arg] THEN 1 ELSE 0)

\* construction at an offset past the end of the resource raised
C12_Witness ==
    /\ inst = "failed"
    /\ life.arg # None
    /\ assoc[life.arg]
    /\ life.ofs >= FileSize
    /\ life.nreloc = 1

\* C13: after __del__ the cursor the buffer had holds no window, whatever
\* calls came before.
C13_NoWindowAfterDestroy ==
    (life.op = "__del__" /\ life.arg # None) => ~is_valid(cur[life.arg])

\* the buffer was destroyed while its cursor held a window
C13_Witness ==
    /\ life.op = "__del__"
    /\ inst = "absent"
    /\ life.arg # None
    /\ life.held
    /\ ~is_valid(cur[life.arg])

\* the read of accessor a began on a valid cursor
BeganBound(a) == loc[a].c # None /\ is_valid(loc[a].w0)

CursorCalls ==
    {"gi_incl", "gi_use", "gi_read", "gs_test", "gs_b", "gs_fast", "gs_use",
     "gs_read"}

\* C15: a read performs no cursor operation (coverage query, window begin
\* or end, relocation, bytes) before is_valid() was called and answered
\* true.
C15_ValidFirst ==
    [][\A a \in Accessors :
         (pc[a] \in CursorCalls /\ pc'[a] # pc[a])
             => loc[a].chk]_vars

\* a slice that passed the validity check is about to read relocated bytes
C15_Witness ==
    \E a \in Accessors :
        /\ pc[a] = "gs_read"
        /\ loc[a].chk
        /\ loc[a].nreloc = 1

\* C17: at the head of every iteration of the slow path ofs + l = j,
\* 0 <= l <= j - i and len(md) = (j - i) - l; each relocation request is
\* (ofs, l); no step consumes more than l bytes; a slow path that returns,
\* returns j - i bytes.
C17_SlowPathAccounting ==
    \A a \in Accessors :
        Slices(a) =>
            /\ pc[a] \in {"gs_loop", "gs_use", "gs_read"}
                 => /\ loc[a].ofs + loc[a].l = loc[a].j
                    /\ 0 <= loc[a].l
                    /\ loc[a].l <= loc[a].j - loc[a].i
                    /\ Len(loc[a].md) = (loc[a].j - loc[a].i) - loc[a].l
            /\ pc[a] = "gs_read"
                 => /\ loc[a].req =
                         <<Request(loc[a].c, loc[a].ofs, loc[a].l, 0)>>
                    /\ Len(SlowRead(cur[loc[a].c], loc[a].l)) <= loc[a].l
            /\ (pc[a] = "done" /\ ~FastPath(loc[a].w0, loc[a].i, loc[a].j))
                 => Len(loc[a].val) = loc[a].j - loc[a].i

\* the loop head after two relocations, with bytes still to read
C17_Witness ==
    \E a \in Accessors :
        /\ Slices(a)
        /\ pc[a] = "gs_loop"
        /\ loc[a].nreloc = 2
        /\ loc[a].l > 0
        /\ Len(loc[a].md) = 2

\* accessor a's at(i), begun on a valid cursor with i inside the resource,
\* ended without the resource byte at i
Torn(a) ==
    /\ Items(a)
    /\ BeganBound(a)
    /\ loc[a].i < FileSize
    /\ pc[a] \in {"done", "failed"}
    /\ (pc[a] = "failed" \/ loc[a].val # <<Resource[loc[a].i]>>)

\* C16: when the callers let one accessor at a time read, the window that
\* at(i) reads is the one its coverage check or relocation left, and no
\* read is torn.  (Without that synchronisation a torn read is reachable:
\* C16_Witness.)
C16_ExclusiveReadsNotTorn ==
    sync => \A a \in Accessors :
               /\ ~Torn(a)
               /\ (pc[a] = "gi_read" /\ loc[a].i < FileSize)
                    => includes_ofs(cur[loc[a].c], loc[a].i)

\* unsynchronised: at(i) found i covered, another accessor relocated the
\* window before the bytes were read, and at(i) returned another byte
C16_Witness ==
    /\ ~sync
    /\ \E a \in Accessors :
         /\ Torn(a)
         /\ includes_ofs(loc[a].w0, loc[a].i)
         /\ loc[a].nreloc = 0
         /\ cur[loc[a].c] # loc[a].w0
         /\ pc[a] = "done"
         /\ loc[a].val # <<Resource[loc[a].i]>>

\* C18: when the caller releases before each rebind, only the stored
\* cursor holds a window; release keeps the stored cursor, and the stored
\* cursor changes only by a bind (or construction) that passes the new
\* one, or by destruction.
C18_SingleOwner ==
    /\ [](\A k \in Cursors : is_valid(cur[k]) => k = _c)
    /\ [][/\ (AllIdle /\ pc' = pc /\ life'.op = "end_access") => _c' = _c
          /\ _c' # _c
               => \/ /\ life'.op \in {"__init__", "begin_access"}
                     /\ life'.arg = _c'
                     /\ _c' # None
                  \/ life'.op = "__del__" /\ _c' = None]_vars

\* after the release of a bound cursor the buffer was bound to the other
\* cursor, which alone holds a window
C18_Witness ==
    /\ life.op = "begin_access"
    /\ life.prev # None
    /\ life.arg # None
    /\ life.arg # life.prev
    /\ life.ret = "True"
    /\ _c = life.arg
    /\ is_valid(cur[_c])
    /\ ~is_valid(cur[life.prev])

====
